---- MODULE Spec2Model ----
(***************************************************************************)
(* Model of src/main.py: class HashTable, a two-level dictionary           *)
(* collection : hash code -> (key -> value) with a code-point-sum hash.    *)
(* A Python dict is a function with a finite domain; a str is a sequence   *)
(* of one-character strings; a method is an operator from (collection,     *)
(* arguments) to [coll, ret, exc]: the collection afterwards, the returned *)
(* value and the exception raised ("none" when the call returns).          *)
(***************************************************************************)
EXTENDS Integers, Sequences, FiniteSets

\* ---- bounds of the explored input space ----
MaxKeys == 4     \* the calls use the first MaxKeys keys of KeyPool
MaxVal == 2      \* stored values are None and 1..MaxVal
MaxOps == 3      \* at most MaxOps add/remove calls in one run
MaxLen == 3      \* hash is evaluated on every string of at most MaxLen

\* Python's None, kept apart from the values 1..MaxVal
None == 0

Alphabet == {"a", "b", "c"}

\* every str of at most MaxLen characters
Strings == UNION {[1..n -> Alphabet] : n \in 0..MaxLen}

\* keys passed to add/remove/lookup: an anagram pair, the empty string,
\* a pair colliding without being anagrams, single characters
KeyPool == << <<"a", "b">>, <<"b", "a">>, << >>, <<"b", "b">>,
              <<"a", "c">>, <<"a">>, <<"c">> >>

Keys == {KeyPool[i] : i \in 1..MaxKeys}

Values == {None} \cup (1..MaxVal)

VARIABLES
    collection,  \* self.collection
    ret,         \* value returned by the last call
    exc,         \* exception raised by the last call, "none" if it returned
    last,        \* the last call: its name, arguments and what it found
    flat,        \* reference: a flat key -> value map fed the same calls
    lastWrite,   \* history: per key, the most recent add/remove call on it
    nOps         \* number of add/remove calls made

vars == <<collection, ret, exc, last, flat, lastWrite, nOps>>

\* ---- Python dict primitives ----

\* {}
EmptyDict == [x \in {} |-> None]

\* d[k] = v
DictSet(d, k, v) == [x \in (DOMAIN d) \cup {k} |-> IF x = k THEN v ELSE d[x]]

\* del d[k], for k in d
DictDel(d, k) == [x \in (DOMAIN d) \ {k} |-> d[x]]

\* ---- HashTable.hash ----

\* ord(c)
ord(c) == CASE c = "a" -> 97
            [] c = "b" -> 98
            [] c = "c" -> 99

\* the loop "for c in string: hash += ord(c)" from position i with
\* accumulator acc
RECURSIVE hashLoop(_, _, _)
hashLoop(string, i, acc) ==
    IF i > Len(string) THEN acc
    ELSE hashLoop(string, i + 1, acc + ord(string[i]))

\* a hash that weighs each character by its position
hashPositional(string) ==
    LET RECURSIVE loop(_, _)
        loop(i, acc) == IF i > Len(string) THEN acc
                        ELSE loop(i + 1, acc + i * ord(string[i]))
    IN loop(1, 0)

hash(string) == hashLoop(string, 1, 0)

\* ---- HashTable.add ----

\* add that resets the bucket on every call (the "not in" test dropped)
addFreshBucket(coll, key, value) ==
    LET computed_hash == hash(key)
        c1 == DictSet(coll, computed_hash, EmptyDict)
    IN [coll |-> DictSet(c1, computed_hash,
                         DictSet(c1[computed_hash], key, value)),
        ret |-> None, exc |-> "none"]

\* add that keeps the first value of a key (setdefault)
addKeepFirst(coll, key, value) ==
    LET computed_hash == hash(key)
        c1 == IF computed_hash \notin DOMAIN coll
              THEN DictSet(coll, computed_hash, EmptyDict)
              ELSE coll
    IN [coll |-> IF key \in DOMAIN c1[computed_hash] THEN c1
                 ELSE DictSet(c1, computed_hash,
                              DictSet(c1[computed_hash], key, value)),
        ret |-> None, exc |-> "none"]

\* add that files the key under the code of its length
addByLength(coll, key, value) ==
    LET computed_hash == Len(key)
        c1 == IF computed_hash \notin DOMAIN coll
              THEN DictSet(coll, computed_hash, EmptyDict)
              ELSE coll
    IN [coll |-> DictSet(c1, computed_hash,
                         DictSet(c1[computed_hash], key, value)),
        ret |-> None, exc |-> "none"]

add(coll, key, value) ==
    LET computed_hash == hash(key)
        c1 == IF computed_hash \notin DOMAIN coll
              THEN DictSet(coll, computed_hash, EmptyDict)
              ELSE coll
    IN [coll |-> DictSet(c1, computed_hash,
                         DictSet(c1[computed_hash], key, value)),
        ret |-> None, exc |-> "none"]

\* ---- HashTable.remove ----

\* remove without the inner membership test: del raises KeyError
removeUnguarded(coll, key) ==
    LET computed_hash == hash(key)
    IN IF computed_hash \in DOMAIN coll
       THEN IF key \in DOMAIN coll[computed_hash]
            THEN [coll |-> DictSet(coll, computed_hash,
                                   DictDel(coll[computed_hash], key)),
                  ret |-> None, exc |-> "none"]
            ELSE [coll |-> coll, ret |-> None, exc |-> "KeyError"]
       ELSE [coll |-> coll, ret |-> None, exc |-> "none"]

\* remove that drops a bucket it has emptied
removePruning(coll, key) ==
    LET computed_hash == hash(key)
    IN IF computed_hash \in DOMAIN coll
          /\ key \in DOMAIN coll[computed_hash]
       THEN [coll |-> IF DOMAIN coll[computed_hash] = {key}
                      THEN DictDel(coll, computed_hash)
                      ELSE DictSet(coll, computed_hash,
                                   DictDel(coll[computed_hash], key)),
             ret |-> None, exc |-> "none"]
       ELSE [coll |-> coll, ret |-> None, exc |-> "none"]

\* remove that deletes the whole bucket of the key
removeBucket(coll, key) ==
    LET computed_hash == hash(key)
    IN IF computed_hash \in DOMAIN coll
          /\ key \in DOMAIN coll[computed_hash]
       THEN [coll |-> DictSet(coll, computed_hash, EmptyDict),
             ret |-> None, exc |-> "none"]
       ELSE [coll |-> coll, ret |-> None, exc |-> "none"]

remove(coll, key) ==
    LET computed_hash == hash(key)
    IN IF computed_hash \in DOMAIN coll
          /\ key \in DOMAIN coll[computed_hash]
       THEN [coll |-> DictSet(coll, computed_hash,
                              DictDel(coll[computed_hash], key)),
             ret |-> None, exc |-> "none"]
       ELSE [coll |-> coll, ret |-> None, exc |-> "none"]

\* ---- HashTable.lookup ----

\* lookup that creates the missing bucket (defaultdict-style access)
lookupCreating(coll, key) ==
    LET computed_hash == hash(key)
    IN IF computed_hash \in DOMAIN coll
       THEN [coll |-> coll,
             ret |-> IF key \in DOMAIN coll[computed_hash]
                     THEN coll[computed_hash][key] ELSE None,
             exc |-> "none"]
       ELSE [coll |-> DictSet(coll, computed_hash, EmptyDict),
             ret |-> None, exc |-> "none"]

\* lookup that answers from the bucket without testing the key
lookupAnyInBucket(coll, key) ==
    LET computed_hash == hash(key)
    IN IF computed_hash \in DOMAIN coll
          /\ DOMAIN coll[computed_hash] # {}
       THEN [coll |-> coll,
             ret |-> IF key \in DOMAIN coll[computed_hash]
                     THEN coll[computed_hash][key]
                     ELSE coll[computed_hash][
                              CHOOSE k \in DOMAIN coll[computed_hash] : TRUE],
             exc |-> "none"]
       ELSE [coll |-> coll, ret |-> None, exc |-> "none"]

lookup(coll, key) ==
    LET computed_hash == hash(key)
    IN IF computed_hash \in DOMAIN coll
          /\ key \in DOMAIN coll[computed_hash]
       THEN [coll |-> coll, ret |-> coll[computed_hash][key], exc |-> "none"]
       ELSE [coll |-> coll, ret |-> None, exc |-> "none"]

\* ---- the calls as steps ----

\* what a call on key finds before it runs
Found(op, key, value) ==
    LET h == hash(key)
        hadBucket == h \in DOMAIN collection
        hadKey == hadBucket /\ key \in DOMAIN collection[h]
    IN [op |-> op, key |-> key, value |-> value, computed_hash |-> h,
        hadBucket |-> hadBucket, hadKey |-> hadKey,
        old |-> IF hadKey THEN collection[h][key] ELSE None]

\* keys other than key that share its hash code
Colliding(key) == {k \in Keys : k # key /\ hash(k) = hash(key)}

\* the history after a write of kind w to key: the written key's record is
\* reset, and every colliding key notes that its bucket was touched since
Written(key, w, value) ==
    [k \in Keys |->
        IF k = key THEN [kind |-> w, value |-> value, touched |-> FALSE]
        ELSE IF k \in Colliding(key) /\ lastWrite[k].kind # "never"
             THEN [lastWrite[k] EXCEPT !.touched = TRUE]
             ELSE lastWrite[k]]

\* HashTable()
Init ==
    /\ collection = EmptyDict
    /\ ret = None
    /\ exc = "none"
    /\ last = [op |-> "init", key |-> <<>>, value |-> None,
               computed_hash |-> 0, hadBucket |-> FALSE, hadKey |-> FALSE,
               old |-> None]
    /\ flat = EmptyDict
    /\ lastWrite = [k \in Keys |->
                       [kind |-> "never", value |-> None, touched |-> FALSE]]
    /\ nOps = 0

Add(key, value) ==
    /\ nOps < MaxOps
    /\ LET r == add(collection, key, value)
       IN /\ collection' = r.coll
          /\ ret' = r.ret
          /\ exc' = r.exc
    /\ last' = Found("add", key, value)
    /\ flat' = DictSet(flat, key, value)
    /\ lastWrite' = Written(key, "add", value)
    /\ nOps' = nOps + 1

Remove(key) ==
    /\ nOps < MaxOps
    /\ LET r == remove(collection, key)
       IN /\ collection' = r.coll
          /\ ret' = r.ret
          /\ exc' = r.exc
    /\ last' = Found("remove", key, None)
    /\ flat' = IF key \in DOMAIN flat THEN DictDel(flat, key) ELSE flat
    /\ lastWrite' = Written(key, "remove", None)
    /\ nOps' = nOps + 1

Lookup(key) ==
    /\ LET r == lookup(collection, key)
       IN /\ collection' = r.coll
          /\ ret' = r.ret
          /\ exc' = r.exc
    /\ last' = Found("lookup", key, None)
    /\ UNCHANGED <<flat, lastWrite, nOps>>

Next ==
    \/ \E key \in Keys, value \in Values : Add(key, value)
    \/ \E key \in Keys : Remove(key)
    \/ \E key \in Keys : Lookup(key)

Spec == Init /\ [][Next]_vars

\* ---- observations used by the properties ----

\* key is held by some bucket of coll
Stored(coll, key) == \E h \in DOMAIN coll : key \in DOMAIN coll[h]

\* the hash codes whose bucket holds key
BucketsOf(coll, key) == {h \in DOMAIN coll : key \in DOMAIN coll[h]}

\* all (key, value) entries of all buckets
Entries(coll) ==
    UNION {{<<k, coll[h][k]>> : k \in DOMAIN coll[h]} : h \in DOMAIN coll}

\* number of occurrences of character c in string
Count(string, c) == Cardinality({i \in 1..Len(string) : string[i] = c})

RECURSIVE SumOver(_, _)
SumOver(S, string) ==
    IF S = {} THEN 0
    ELSE LET c == CHOOSE x \in S : TRUE
         IN Count(string, c) * ord(c) + SumOver(S \ {c}, string)

\* sum of the code points of string, taken character class by class
CodeSum(string) == SumOver(Alphabet, string)

\* two strings with the same characters, each the same number of times
IsPermutation(s, t) ==
    /\ Len(s) = Len(t)
    /\ \A c \in Alphabet : Count(s, c) = Count(t, c)

\* hash on every string of at most MaxLen characters: the code-point sum,
\* 0 for the empty string, the same for permutations of one another
HashOnStrings ==
    /\ \A k \in Strings : hash(k) = CodeSum(k)
    /\ hash(<<>>) = 0
    /\ \A s \in Strings : \A t \in Strings :
          IsPermutation(s, t) => hash(s) = hash(t)

\* ---- C1 ----
\* C1: after add(k, v), lookup(k) returns v for as long as no later
\* add(k, _) or remove(k) was called, whatever calls were made on other
\* keys, colliding ones included: every key whose most recent write is
\* add(k, v) looks up to v, and so does the lookup that was just called.
C1_AddThenLookup ==
    /\ \A k \in Keys :
          lastWrite[k].kind = "add"
             => lookup(collection, k).ret = lastWrite[k].value
    /\ (last.op = "lookup" /\ lastWrite[last.key].kind = "add")
          => (ret = lastWrite[last.key].value /\ exc = "none")

\* a lookup of an added key whose bucket a colliding key has been written
\* to since the add
C1_Witness ==
    /\ last.op = "lookup"
    /\ lastWrite[last.key].kind = "add"
    /\ lastWrite[last.key].touched
    /\ lastWrite[last.key].value # None
    /\ ret = lastWrite[last.key].value

\* ---- C2 ----
\* C2: in every reachable state each stored key is in exactly one bucket,
\* the one indexed by its hash, and no bucket h holds a key whose hash
\* is not h.
C2_KeyInItsBucket ==
    /\ \A h \in DOMAIN collection :
          \A k \in DOMAIN collection[h] : hash(k) = h
    /\ \A k \in Keys :
          Stored(collection, k) => BucketsOf(collection, k) = {hash(k)}

\* two colliding keys share a bucket while a third key sits in another
C2_Witness ==
    \E k1 \in Keys : \E k2 \in Colliding(k1) : \E k3 \in Keys :
        /\ hash(k3) # hash(k1)
        /\ Stored(collection, k1)
        /\ Stored(collection, k2)
        /\ Stored(collection, k3)

\* ---- C3 ----
\* C3: add(k, v) and remove(k) leave lookup(k') unchanged for every other
\* key k', colliding or not; after remove(k) the key k is absent.
C3_OtherKeysUntouched ==
    [][ /\ \A k \in Keys :
              (last'.op \in {"add", "remove"} /\ last'.key # k)
                 => /\ lookup(collection', k).ret = lookup(collection, k).ret
                    /\ Stored(collection', k) = Stored(collection, k)
        /\ last'.op = "remove"
              => /\ lookup(collection', last'.key).ret = None
                 /\ ~Stored(collection', last'.key)
      ]_vars

\* a stored key was removed while a colliding key stays stored with the
\* value it was given
C3_Witness ==
    /\ last.op = "remove"
    /\ last.hadKey
    /\ ~Stored(collection, last.key)
    /\ \E k \in Colliding(last.key) :
          /\ Stored(collection, k)
          /\ lastWrite[k].value # None
          /\ lookup(collection, k).ret = lastWrite[k].value

\* ---- C4 ----
\* C4: the set of hash codes that index a bucket never shrinks; remove
\* leaves that set as it is, also when it deletes the last key of a bucket.
C4_BucketsPersist ==
    [][ /\ DOMAIN collection \subseteq DOMAIN collection'
        /\ last'.op = "remove" => DOMAIN collection' = DOMAIN collection
      ]_vars

\* a remove has deleted the only key of a bucket, which is still there
C4_Witness ==
    /\ last.op = "remove"
    /\ last.hadKey
    /\ last.computed_hash \in DOMAIN collection
    /\ collection[last.computed_hash] = EmptyDict

\* ---- C5 ----
\* C5: remove(k) of a key that is not stored raises nothing and leaves
\* collection unchanged; a second remove(k) right after any remove(k)
\* changes nothing.
C5_RemoveAbsentIsNoOp ==
    [][ /\ (last'.op = "remove" /\ ~last'.hadKey)
              => (collection' = collection /\ exc' = "none")
        /\ last'.op = "remove"
              => (/\ exc' = "none"
                  /\ remove(collection', last'.key).coll = collection'
                  /\ remove(collection', last'.key).exc = "none")
      ]_vars

\* remove was called on a key missing from an existing, non-empty bucket
C5_Witness ==
    /\ last.op = "remove"
    /\ last.hadBucket
    /\ ~last.hadKey
    /\ collection[last.computed_hash] # EmptyDict
    /\ exc = "none"

\* ---- C6 ----
\* C6: lookup(k) returns None whenever k is not stored: never added
\* (fresh container, or only a colliding key was added) or removed since
\* its last add.
C6_AbsentLooksUpNone ==
    /\ \A k \in Keys :
          lastWrite[k].kind # "add" => lookup(collection, k).ret = None
    /\ (last.op = "lookup" /\ lastWrite[last.key].kind # "add")
          => ret = None

\* a lookup of a removed key whose bucket still holds a colliding key
C6_Witness ==
    /\ last.op = "lookup"
    /\ lastWrite[last.key].kind = "remove"
    /\ last.hadBucket
    /\ collection[last.computed_hash] # EmptyDict
    /\ ret = None

\* ---- C7 ----
\* C7: lookup(k) leaves collection as it was (no bucket is created) and
\* raises nothing.
C7_LookupReadOnly ==
    [][ last'.op = "lookup"
           => (collection' = collection /\ exc' = "none") ]_vars

\* a lookup of a key without a bucket, in a non-empty container, and the
\* bucket is still missing
C7_Witness ==
    /\ last.op = "lookup"
    /\ ~last.hadBucket
    /\ last.computed_hash \notin DOMAIN collection
    /\ collection # EmptyDict

\* ---- C8 ----
\* C8: add(k, v2) on a stored key overwrites in place: lookup(k) is v2
\* (not the old value when they differ), the bucket keeps its keys and
\* size, and every other entry and bucket is unchanged.
C8_OverwriteInPlace ==
    [][ (last'.op = "add" /\ last'.hadKey)
           => LET k == last'.key
                  h == last'.computed_hash
              IN /\ lookup(collection', k).ret = last'.value
                 /\ last'.value # last'.old
                       => lookup(collection', k).ret # last'.old
                 /\ DOMAIN collection' = DOMAIN collection
                 /\ \A g \in DOMAIN collection :
                       DOMAIN collection'[g] = DOMAIN collection[g]
                 /\ Cardinality(DOMAIN collection'[h])
                       = Cardinality(DOMAIN collection[h])
                 /\ \A g \in DOMAIN collection :
                       \A j \in DOMAIN collection[g] :
                          j # k => collection'[g][j] = collection[g][j]
      ]_vars

\* a stored key was re-added with a different value in a bucket of two
C8_Witness ==
    /\ last.op = "add"
    /\ last.hadKey
    /\ last.value # last.old
    /\ Cardinality(DOMAIN collection[last.computed_hash]) = 2
    /\ collection[last.computed_hash][last.key] = last.value

\* ---- C9 ----
\* C9: hash(key) is the sum of the code points of the characters of key:
\* 0 for the empty string, equal for permutations of one another, and the
\* code computed by a call in any container state is that sum.
C9_HashIsCodeSum ==
    /\ HashOnStrings
    /\ \A k \in Keys : hash(k) = CodeSum(k)
    /\ last.op # "init" => last.computed_hash = CodeSum(last.key)

\* a call on a key of two different characters in a non-empty container
C9_Witness ==
    /\ last.op # "init"
    /\ Len(last.key) >= 2
    /\ last.key[1] # last.key[2]
    /\ collection # EmptyDict
    /\ last.computed_hash = ord(last.key[1]) + ord(last.key[2])
                              + CodeSum(SubSeq(last.key, 3, Len(last.key)))

\* ---- C10 ----
\* C10: after every step the entries of all buckets together are exactly
\* the flat map fed the same add/remove calls, and lookup(k) is the flat
\* map's value for k, None when k is not in it; empty buckets change no
\* lookup.
C10_FlatMapEquivalence ==
    /\ Entries(collection) = {<<k, flat[k]>> : k \in DOMAIN flat}
    /\ \A k \in Keys :
          lookup(collection, k).ret
             = IF k \in DOMAIN flat THEN flat[k] ELSE None

\* an empty bucket was left behind next to a non-empty one
C10_Witness ==
    /\ flat # EmptyDict
    /\ \E h \in DOMAIN collection : collection[h] = EmptyDict
    /\ \E h \in DOMAIN collection : collection[h] # EmptyDict

====
